---- MODULE Spec2Model ----
(***************************************************************************)
(* ginslog: the request logger (package logger) and the panic recovery     *)
(* logger (package recovery), two gin middlewares built from functional    *)
(* options.  One behaviour of this module is one call of logger.New or of  *)
(* recovery.New (the options are applied one by one, then the config is    *)
(* validated) followed by the requests served by the returned handler.     *)
(***************************************************************************)
EXTENDS Integers, Sequences, FiniteSets, TLC

VARIABLES
    mw,                \* which factory is called: "logger" or "recovery"
    phase,             \* New: "opts" (applying options), "ready", "aborted"
    panicMsg,          \* value New panicked with, NoPanic otherwise
    nOpts,             \* number of options applied so far
    config,            \* the *Config that New builds and the handler closes over
    pc,                \* position of the per-request handler
    request,           \* c.Request of the request being handled
    requestID,         \* requestID local of logger.New's handler
    header,            \* X-Request-ID response header
    status,            \* c.Writer.Status()
    aborted,           \* c.IsAborted()
    err,               \* value recovered by recovery.New's handler
    records,           \* records the handler passed to logger.LogAttrs
    events,            \* per-request trace of calls made by the handler
    result,            \* how the handler ended: "none", "returned", "panic"
    twin,              \* the *Config of a second call of New with the same options
    workers            \* locals of the handler invocations that run concurrently

vars == <<mw, phase, panicMsg, nOpts, config, pc, request, requestID, header,
          status, aborted, err, records, events, result, twin, workers>>

\* State of the second call of New and of the concurrent invocations.
otherVars == <<twin, workers>>

reqVars == <<pc, request, requestID, header, status, aborted, err,
             records, events, result>>

-----------------------------------------------------------------------------
(* Bounds *)

\* Longest option list handed to New.
MaxOpts == 3
\* Longest whitelist or blacklist.
MaxPatterns == 2
\* Longest latency measured, in clock ticks.
MaxLatency == 1

-----------------------------------------------------------------------------
(* Values *)

NoPanic == "<none>"
Nil == "<nil>"
NoRequest == [method |-> "", path |-> <<>>, userAgent |-> "", ip |-> ""]

LevelDebug == "DEBUG"
LevelInfo == "INFO"
LevelWarn == "WARN"
LevelError == "ERROR"
Levels == {LevelDebug, LevelInfo, LevelWarn, LevelError}

Digit == <<"0", "1", "2", "3", "4", "5", "6", "7", "8", "9">>
AnyDigit == {Digit[i] : i \in 1..10}

-----------------------------------------------------------------------------
(* Regular expressions.  An expression is a sequence of character classes,  *)
(* optionally anchored at either end; ok = FALSE is an expression that does *)
(* not compile.                                                             *)

Expr(anchS, cls, anchE) == [anchS |-> anchS, cls |-> cls, anchE |-> anchE, ok |-> TRUE]
BadExpr == [anchS |-> FALSE, cls |-> <<>>, anchE |-> FALSE, ok |-> FALSE]

\* regexp.MatchString: the expression matches some substring of s.
MatchString(re, s) ==
    \E i \in 1..(Len(s) + 1) :
        /\ i + Len(re.cls) - 1 <= Len(s)
        /\ \A k \in 1..Len(re.cls) : s[i + k - 1] \in re.cls[k]
        /\ re.anchS => i = 1
        /\ re.anchE => i + Len(re.cls) - 1 = Len(s)

RECURSIVE Digits(_)
Digits(n) == IF n < 10 THEN <<Digit[n + 1]>>
             ELSE Append(Digits(n \div 10), Digit[(n % 10) + 1])

\* fmt.Sprintf("%d", code)
Sprintf(code) == IF code < 0 THEN <<"-">> \o Digits(0 - code) ELSE Digits(code)

HTTPInformationalRegex == Expr(TRUE, <<{"1"}, AnyDigit, AnyDigit>>, TRUE)
HTTPSuccessfulRegex == Expr(TRUE, <<{"2"}, AnyDigit, AnyDigit>>, TRUE)
HTTPRedirectionRegex == Expr(TRUE, <<{"3"}, AnyDigit, AnyDigit>>, TRUE)
\* Mutant: "4[0-9]{2}$", the start anchor is forgotten.
HTTPClientErrorRegexNoAnchor == Expr(FALSE, <<{"4"}, AnyDigit, AnyDigit>>, TRUE)
HTTPClientErrorRegex == Expr(TRUE, <<{"4"}, AnyDigit, AnyDigit>>, TRUE)
HTTPServerErrorRegex == Expr(TRUE, <<{"5"}, AnyDigit, AnyDigit>>, TRUE)

-----------------------------------------------------------------------------
(* Inputs *)

PathTest == <<"/", "t", "e", "s", "t">>
PathTest1 == <<"/", "t", "e", "s", "t", "1">>
PathTest2 == <<"/", "t", "e", "s", "t", "2">>

\* The requests sent by the tests, and one more method.
Requests ==
    { [method |-> "GET", path |-> PathTest, userAgent |-> "test", ip |-> "192.0.2.1"],
      [method |-> "GET", path |-> PathTest1, userAgent |-> "test1", ip |-> "192.0.2.1"],
      [method |-> "POST", path |-> PathTest2, userAgent |-> "test2", ip |-> "192.0.2.1"] }

\* Path expressions "/test1" and "/test2" as the tests pass them (unanchored).
ExprTest1 == Expr(FALSE, <<{"/"}, {"t"}, {"e"}, {"s"}, {"t"}, {"1"}>>, FALSE)
ExprTest2 == Expr(FALSE, <<{"/"}, {"t"}, {"e"}, {"s"}, {"t"}, {"2"}>>, FALSE)
\* "t[12]$": any path ending in t1 or t2.
ExprTestN == Expr(FALSE, <<{"t"}, {"1", "2"}>>, TRUE)

PathLists == { <<>>, <<ExprTest1>>, <<ExprTest2>>, <<ExprTestN>>,
               <<ExprTest1, ExprTest2>>, <<BadExpr>> }

\* "0$": any code ending in 0.
ExprEnds0 == Expr(FALSE, <<{"0"}>>, TRUE)

\* A Go map has no order: WithHTTPLevels ranges over it in any order, so a
\* map is given here as the set of its entries.
LevelMaps ==
    { {},
      {[expr |-> HTTPSuccessfulRegex, level |-> LevelWarn]},
      {[expr |-> HTTPSuccessfulRegex, level |-> LevelDebug],
       [expr |-> ExprEnds0, level |-> LevelError]},
      {[expr |-> BadExpr, level |-> LevelInfo]} }

\* Status codes a downstream handler answers with.
Statuses == {200, 204, 404, 500, 1200}

\* Values a downstream handler panics with.
PanicValues == {"boom", "oops"}

\* uuid.New().String()
UUIDs == {"52fdfc07", "9566c74d"}

\* A caller-supplied callback is nil or a function that returns.
Callbacks == {Nil, "fn"}

\* What the custom fields callback of the tests returns.
CustomAttrs(c) == <<[key |-> "content-type", val |-> "test"]>>

-----------------------------------------------------------------------------
(* package logger: config.go *)

\* regexp.MustCompile over a list of expressions, appending to list: the
\* expressions before the first one that does not compile are appended.
RECURSIVE MustCompileAll(_, _)
MustCompileAll(list, exprs) ==
    IF exprs = <<>> \/ ~Head(exprs).ok THEN list
    ELSE MustCompileAll(Append(list, Head(exprs)), Tail(exprs))

AllCompile(exprs) == \A i \in 1..Len(exprs) : exprs[i].ok

newhttpLevel(expr, level) == [level |-> level, regexp |-> expr]

\* httpLevel.match
match(h, code) == MatchString(h.regexp, Sprintf(code))

LoggerNewConfig ==
    [ defaultLevel   |-> LevelInfo,
      httpLevels     |-> << newhttpLevel(HTTPInformationalRegex, LevelInfo),
                            newhttpLevel(HTTPSuccessfulRegex, LevelInfo),
                            newhttpLevel(HTTPRedirectionRegex, LevelInfo),
                            newhttpLevel(HTTPClientErrorRegex, LevelWarn),
                            newhttpLevel(HTTPServerErrorRegex, LevelError) >>,
      whitelistPaths |-> <<>>,
      blacklistPaths |-> <<>>,
      customLogger   |-> Nil,
      customFields   |-> Nil,
      ipField        |-> TRUE,
      statusField    |-> TRUE,
      methodField    |-> TRUE,
      pathField      |-> TRUE,
      userAgentField |-> TRUE,
      latencyField   |-> TRUE,
      requestIDField |-> TRUE ]

LoggerIsDefaultFields(c) ==
    \/ c.ipField
    \/ c.statusField
    \/ c.methodField
    \/ c.pathField
    \/ c.userAgentField
    \/ c.latencyField
    \/ c.requestIDField

MsgWhiteBlack == "whitelist and blacklist can't be used together"
MsgNoFields == "no fields to log"
MsgRegexp == "regexp: Compile: error parsing regexp"

\* Mutant: validate without the whitelist/blacklist check.
LoggerValidateFieldsOnly(c) ==
    IF ~LoggerIsDefaultFields(c) /\ c.customFields = Nil THEN MsgNoFields
    ELSE NoPanic

\* Config.validate: the value it panics with, NoPanic when it returns.
LoggerValidate(c) ==
    IF Len(c.whitelistPaths) # 0 /\ Len(c.blacklistPaths) # 0 THEN MsgWhiteBlack
    ELSE IF ~LoggerIsDefaultFields(c) /\ c.customFields = Nil THEN MsgNoFields
    ELSE NoPanic

\* One pass of the loop "for _, opt := range opts { opt(config) }" of New:
\* the option leaves cfg, or panics (ok = FALSE) and New with it.
ApplyOption(cfg, ok) ==
    /\ phase = "opts"
    /\ nOpts < MaxOpts
    /\ nOpts' = nOpts + 1
    /\ config' = cfg
    /\ phase' = IF ok THEN "opts" ELSE "aborted"
    /\ panicMsg' = IF ok THEN NoPanic ELSE MsgRegexp
    /\ UNCHANGED <<mw, reqVars, otherVars>>

\* The orders in which a range over the map m can visit its entries.
RangeOrders(m) ==
    { o \in [1..Cardinality(m) -> m] :
        \A i, j \in 1..Cardinality(m) : i # j => o[i] # o[j] }

\* The loop of WithHTTPLevels over the entries in the order o.
RECURSIVE HTTPLevelsFrom(_, _, _)
HTTPLevelsFrom(list, o, i) ==
    IF i > Len(o) \/ ~o[i].expr.ok THEN list
    ELSE HTTPLevelsFrom(Append(list, newhttpLevel(o[i].expr, o[i].level)), o, i + 1)

Logger_WithDefaultLevel ==
    /\ mw = "logger"
    /\ \E level \in Levels :
        ApplyOption([config EXCEPT !.defaultLevel = level], TRUE)

\* Mutant: the rules of the map are appended to the rules already there.
Logger_WithHTTPLevelsExtends ==
    /\ mw = "logger"
    /\ \E m \in LevelMaps : \E o \in RangeOrders(m) :
        ApplyOption([config EXCEPT !.httpLevels = HTTPLevelsFrom(@, o, 1)],
                    \A e \in m : e.expr.ok)

Logger_WithHTTPLevels ==
    /\ mw = "logger"
    /\ \E m \in LevelMaps : \E o \in RangeOrders(m) :
        ApplyOption([config EXCEPT !.httpLevels = HTTPLevelsFrom(<<>>, o, 1)],
                    \A e \in m : e.expr.ok)

Logger_WithWhitelistPath ==
    /\ mw = "logger"
    /\ \E whitelistPath \in PathLists :
        /\ Len(config.whitelistPaths) + Len(whitelistPath) <= MaxPatterns
        /\ ApplyOption([config EXCEPT !.whitelistPaths = MustCompileAll(@, whitelistPath)],
                       AllCompile(whitelistPath))

Logger_WithBlacklistPathFrom(lists) ==
    /\ mw = "logger"
    /\ \E blacklistPath \in lists :
        /\ Len(config.blacklistPaths) + Len(blacklistPath) <= MaxPatterns
        /\ ApplyOption([config EXCEPT !.blacklistPaths = MustCompileAll(@, blacklistPath)],
                       AllCompile(blacklistPath))

Logger_WithBlacklistPath == Logger_WithBlacklistPathFrom(PathLists)

Logger_WithCustomLogger ==
    /\ mw = "logger"
    /\ \E customLogger \in Callbacks :
        ApplyOption([config EXCEPT !.customLogger = customLogger], TRUE)

Logger_WithCustomFields ==
    /\ mw = "logger"
    /\ \E customFields \in Callbacks :
        ApplyOption([config EXCEPT !.customFields = customFields], TRUE)

Logger_WithoutDefaultFields ==
    /\ mw = "logger"
    /\ ApplyOption([config EXCEPT !.ipField = FALSE,
                                  !.statusField = FALSE,
                                  !.methodField = FALSE,
                                  !.pathField = FALSE,
                                  !.userAgentField = FALSE,
                                  !.latencyField = FALSE,
                                  !.requestIDField = FALSE], TRUE)

Logger_WithoutIP ==
    mw = "logger" /\ ApplyOption([config EXCEPT !.ipField = FALSE], TRUE)

Logger_WithoutStatus ==
    mw = "logger" /\ ApplyOption([config EXCEPT !.statusField = FALSE], TRUE)

Logger_WithoutMethod ==
    mw = "logger" /\ ApplyOption([config EXCEPT !.methodField = FALSE], TRUE)

Logger_WithoutPath ==
    mw = "logger" /\ ApplyOption([config EXCEPT !.pathField = FALSE], TRUE)

Logger_WithoutUserAgent ==
    mw = "logger" /\ ApplyOption([config EXCEPT !.userAgentField = FALSE], TRUE)

Logger_WithoutLatency ==
    mw = "logger" /\ ApplyOption([config EXCEPT !.latencyField = FALSE], TRUE)

Logger_WithoutRequestID ==
    mw = "logger" /\ ApplyOption([config EXCEPT !.requestIDField = FALSE], TRUE)

\* New after the option loop: config.validate(), then the handler is returned.
Logger_New ==
    /\ mw = "logger"
    /\ phase = "opts"
    /\ panicMsg' = LoggerValidate(config)
    /\ phase' = IF LoggerValidate(config) = NoPanic THEN "ready" ELSE "aborted"
    /\ UNCHANGED <<mw, nOpts, config, reqVars, otherVars>>

-----------------------------------------------------------------------------
(* package logger: middleware.go *)

\* Mutant: the whitelist check is skipped.
WhitelistReturnsNever(c, path) == FALSE

\* "Check if the path is whitelisted": the handler returns without logging.
WhitelistReturns(c, path) ==
    /\ Len(c.whitelistPaths) > 0
    /\ \E i \in 1..Len(c.whitelistPaths) : ~MatchString(c.whitelistPaths[i], path)

\* Mutant: the handler returns only when every blacklist pattern matches.
BlacklistReturnsAll(c, path) ==
    /\ Len(c.blacklistPaths) > 0
    /\ \A i \in 1..Len(c.blacklistPaths) : MatchString(c.blacklistPaths[i], path)

\* "Check if the path is blacklisted": the handler returns without logging.
BlacklistReturns(c, path) ==
    /\ Len(c.blacklistPaths) > 0
    /\ \E i \in 1..Len(c.blacklistPaths) : MatchString(c.blacklistPaths[i], path)

Attr(key, val) == [key |-> key, val |-> val]
If(flag, attrs) == IF flag THEN attrs ELSE <<>>

\* Mutant: the user agent is gated by the path flag.
LoggerAttributesWrongFlag(c, req, code, latency, id) ==
       If(c.ipField, <<Attr("ip", req.ip)>>)
    \o If(c.statusField, <<Attr("status", code)>>)
    \o If(c.methodField, <<Attr("method", req.method)>>)
    \o If(c.pathField, <<Attr("path", req.path)>>)
    \o If(c.pathField, <<Attr("user-agent", req.userAgent)>>)
    \o If(c.latencyField, <<Attr("latency", latency)>>)
    \o If(c.requestIDField, <<Attr("request-id", id)>>)
    \o If(c.customFields # Nil, CustomAttrs(req))

\* The attributes slice the handler assembles.
LoggerAttributes(c, req, code, latency, id) ==
       If(c.ipField, <<Attr("ip", req.ip)>>)
    \o If(c.statusField, <<Attr("status", code)>>)
    \o If(c.methodField, <<Attr("method", req.method)>>)
    \o If(c.pathField, <<Attr("path", req.path)>>)
    \o If(c.userAgentField, <<Attr("user-agent", req.userAgent)>>)
    \o If(c.latencyField, <<Attr("latency", latency)>>)
    \o If(c.requestIDField, <<Attr("request-id", id)>>)
    \o If(c.customFields # Nil, CustomAttrs(req))

\* "Log according to the status code": the loop over config.httpLevels from
\* index i on, then the default level.
RECURSIVE LevelFrom(_, _, _)
LevelFrom(c, code, i) ==
    IF i > Len(c.httpLevels) THEN c.defaultLevel
    ELSE IF match(c.httpLevels[i], code) THEN c.httpLevels[i].level
    ELSE LevelFrom(c, code, i + 1)

\* Mutant: the last matching rule wins.
LoggerLevelLastMatch(c, code) ==
    LET M == {i \in 1..Len(c.httpLevels) : match(c.httpLevels[i], code)}
    IN  IF M = {} THEN c.defaultLevel
        ELSE c.httpLevels[CHOOSE i \in M : \A j \in M : j <= i].level

LoggerLevel(c, code) == LevelFrom(c, code, 1)

\* Mutant: the header is set whatever the flag.
LoggerHeaderAlways(c, id) == id

\* c.Header("X-Request-ID", requestID) when the request id field is enabled.
LoggerHeader(c, id) == IF c.requestIDField THEN id ELSE Nil

\* The handler up to c.Next(): a request arrives on a fresh context.
Logger_Handler ==
    /\ mw = "logger"
    /\ phase = "ready"
    /\ pc \in {"idle", "done"}
    /\ \E r \in Requests, id \in UUIDs :
        /\ request' = r
        /\ requestID' = id
        /\ header' = LoggerHeader(config, id)
        /\ events' = If(LoggerHeader(config, id) # Nil, <<"Header">>)
    /\ status' = 200
    /\ aborted' = FALSE
    /\ err' = Nil
    /\ records' = <<>>
    /\ result' = "none"
    /\ pc' = "next"
    /\ UNCHANGED <<otherVars, mw, phase, panicMsg, nOpts, config>>

\* c.Next(): the downstream chain answers with a status, or panics; the
\* logger does not recover, so the panic leaves its handler.
Logger_NextWith(codes) ==
    /\ mw = "logger"
    /\ pc = "next"
    /\ events' = Append(events, "Next")
    /\ \/ \E code \in codes :
            /\ status' = code
            /\ pc' = "after"
            /\ UNCHANGED <<err, result>>
       \/ \E v \in PanicValues :
            /\ err' = v
            /\ result' = "panic"
            /\ pc' = "done"
            /\ UNCHANGED status
    /\ UNCHANGED <<otherVars, mw, phase, panicMsg, nOpts, config, request, requestID,
                   header, aborted, records>>

Logger_Next == Logger_NextWith(Statuses)

\* Mutant: the handler stores the level it resolved in the shared config.
Logger_LogStoresLevel ==
    /\ mw = "logger"
    /\ pc = "after"
    /\ pc' = "done"
    /\ config' = [config EXCEPT !.defaultLevel = LoggerLevel(config, status)]
    /\ IF \/ WhitelistReturns(config, request.path)
          \/ BlacklistReturns(config, request.path)
       THEN /\ result' = "returned"
            /\ UNCHANGED <<records, events>>
       ELSE /\ \E latency \in 0..MaxLatency :
                records' = Append(records,
                    [ level |-> LoggerLevel(config, status),
                      msg |-> "Incoming request",
                      attrs |-> LoggerAttributes(config, request, status,
                                                 latency, requestID) ])
            /\ events' = events
                    \o If(config.customFields # Nil, <<"customFields">>)
                    \o <<"LogAttrs">>
                    \o If(config.customLogger # Nil, <<"customLogger">>)
            /\ result' = IF config.customLogger = Nil THEN "panic" ELSE "returned"
    /\ UNCHANGED <<otherVars, mw, phase, panicMsg, nOpts, request, requestID,
                   header, status, aborted, err>>

\* The handler after c.Next(): filters, attributes, one record, custom logger.
Logger_Log ==
    /\ mw = "logger"
    /\ pc = "after"
    /\ pc' = "done"
    /\ IF \/ WhitelistReturns(config, request.path)
          \/ BlacklistReturns(config, request.path)
       THEN /\ result' = "returned"
            /\ UNCHANGED <<records, events>>
       ELSE /\ \E latency \in 0..MaxLatency :
                records' = Append(records,
                    [ level |-> LoggerLevel(config, status),
                      msg |-> "Incoming request",
                      attrs |-> LoggerAttributes(config, request, status,
                                                 latency, requestID) ])
            /\ events' = events
                    \o If(config.customFields # Nil, <<"customFields">>)
                    \o <<"LogAttrs">>
                    \o If(config.customLogger # Nil, <<"customLogger">>)
            \* calling a nil func value panics
            /\ result' = IF config.customLogger = Nil THEN "panic" ELSE "returned"
    /\ UNCHANGED <<otherVars, mw, phase, panicMsg, nOpts, config, request, requestID,
                   header, status, aborted, err>>

-----------------------------------------------------------------------------
(* package recovery *)

RecoveryNewConfig ==
    [ defaultLevel   |-> LevelError,
      customRecovery |-> "AbortWithStatus(500)",
      customFields   |-> Nil,
      errorField     |-> TRUE,
      requestField   |-> TRUE,
      stackField     |-> TRUE ]

\* Mutant: the stack flag is forgotten.
RecoveryIsDefaultFieldsNoStack(c) ==
    \/ c.errorField
    \/ c.requestField

RecoveryIsDefaultFields(c) ==
    \/ c.errorField
    \/ c.requestField
    \/ c.stackField

RecoveryValidate(c) ==
    IF ~RecoveryIsDefaultFields(c) /\ c.customFields = Nil THEN MsgNoFields
    ELSE NoPanic

Recovery_WithDefaultLevel ==
    /\ mw = "recovery"
    /\ \E level \in Levels :
        ApplyOption([config EXCEPT !.defaultLevel = level], TRUE)

Recovery_WithCustomRecovery ==
    /\ mw = "recovery"
    /\ \E customRecovery \in Callbacks :
        ApplyOption([config EXCEPT !.customRecovery = customRecovery], TRUE)

Recovery_WithCustomFields ==
    /\ mw = "recovery"
    /\ \E customFields \in Callbacks :
        ApplyOption([config EXCEPT !.customFields = customFields], TRUE)

Recovery_WithoutDefaultFields ==
    /\ mw = "recovery"
    /\ ApplyOption([config EXCEPT !.errorField = FALSE,
                                  !.requestField = FALSE,
                                  !.stackField = FALSE], TRUE)

Recovery_WithoutError ==
    mw = "recovery" /\ ApplyOption([config EXCEPT !.errorField = FALSE], TRUE)

Recovery_WithoutRequest ==
    mw = "recovery" /\ ApplyOption([config EXCEPT !.requestField = FALSE], TRUE)

Recovery_WithoutStack ==
    mw = "recovery" /\ ApplyOption([config EXCEPT !.stackField = FALSE], TRUE)

Recovery_New ==
    /\ mw = "recovery"
    /\ phase = "opts"
    /\ panicMsg' = RecoveryValidate(config)
    /\ phase' = IF RecoveryValidate(config) = NoPanic THEN "ready" ELSE "aborted"
    /\ UNCHANGED <<mw, nOpts, config, reqVars, otherVars>>

\* httputil.DumpRequest(c.Request, false); its error is dropped, leaving the
\* dump empty.
DumpRequest(req, ok) == IF ok THEN <<req.method, req.path, req.userAgent>> ELSE <<>>

\* Mutant: the stack is appended before the request.
RecoveryAttributesStackFirst(c, req, e, dumpOK) ==
       If(c.errorField, <<Attr("error", e)>>)
    \o If(c.stackField, <<Attr("stack", "debug.Stack()")>>)
    \o If(c.requestField,
          <<Attr("request", IF RecoveryIsDefaultFields(c)
                            THEN DumpRequest(req, dumpOK) ELSE <<>>)>>)
    \o If(c.customFields # Nil, CustomAttrs(req))

\* The attributes slice the deferred function assembles.
RecoveryAttributes(c, req, e, dumpOK) ==
       If(c.errorField, <<Attr("error", e)>>)
    \o If(c.requestField,
          <<Attr("request", IF RecoveryIsDefaultFields(c)
                            THEN DumpRequest(req, dumpOK) ELSE <<>>)>>)
    \o If(c.stackField, <<Attr("stack", "debug.Stack()")>>)
    \o If(c.customFields # Nil, CustomAttrs(req))

\* Mutant: the default recovery action sets the status without aborting.
CallCustomRecoveryNoAbort(c, code, ab) ==
    CASE c.customRecovery = "AbortWithStatus(500)" -> <<500, ab, "returned">>
      [] c.customRecovery = Nil -> <<code, ab, "panic">>
      [] OTHER -> <<503, TRUE, "returned">>

\* config.customRecovery(c, err): <<status, aborted, result>> after the call.
\* The default aborts with 500, calling a nil func value panics, and a
\* function supplied by the caller answers as it likes, here 503.
CallCustomRecovery(c, code, ab) ==
    CASE c.customRecovery = "AbortWithStatus(500)" -> <<500, TRUE, "returned">>
      [] c.customRecovery = Nil -> <<code, ab, "panic">>
      [] OTHER -> <<503, TRUE, "returned">>

\* The handler: the deferred function is registered and c.Next() runs.  The
\* downstream chain returns, and recover() yields nil, or it panics.
Recovery_Handler ==
    /\ mw = "recovery"
    /\ phase = "ready"
    /\ pc \in {"idle", "done"}
    /\ \E r \in Requests : request' = r
    /\ requestID' = Nil
    /\ header' = Nil
    /\ aborted' = FALSE
    /\ records' = <<>>
    /\ events' = <<"Next">>
    /\ \E code \in Statuses :
        /\ status' = code
        /\ \/ /\ err' = Nil
              /\ result' = "returned"
              /\ pc' = "done"
           \/ /\ err' \in PanicValues
              /\ result' = "none"
              /\ pc' = "recover"
    /\ UNCHANGED <<otherVars, mw, phase, panicMsg, nOpts, config>>

\* The deferred function when recover() yields a value: one record, then the
\* recovery action.
Recovery_Recover ==
    /\ mw = "recovery"
    /\ pc = "recover"
    /\ pc' = "done"
    /\ \E dumpOK \in BOOLEAN :
        records' = Append(records,
            [ level |-> config.defaultLevel,
              msg |-> "Panic recovered",
              attrs |-> RecoveryAttributes(config, request, err, dumpOK) ])
    /\ events' = events
            \o If(config.customFields # Nil, <<"customFields">>)
            \o <<"LogAttrs">>
            \o If(config.customRecovery # Nil, <<"customRecovery(" \o err \o ")">>)
    /\ status' = CallCustomRecovery(config, status, aborted)[1]
    /\ aborted' = CallCustomRecovery(config, status, aborted)[2]
    /\ result' = CallCustomRecovery(config, status, aborted)[3]
    /\ UNCHANGED <<otherVars, mw, phase, panicMsg, nOpts, config, request, requestID,
                   header, err>>

-----------------------------------------------------------------------------
(* Specification *)

Init ==
    /\ mw \in {"logger", "recovery"}
    /\ phase = "opts"
    /\ panicMsg = NoPanic
    /\ nOpts = 0
    /\ config = IF mw = "logger" THEN LoggerNewConfig ELSE RecoveryNewConfig
    /\ pc = "idle"
    /\ request = NoRequest
    /\ requestID = Nil
    /\ header = Nil
    /\ status = 200
    /\ aborted = FALSE
    /\ err = Nil
    /\ records = <<>>
    /\ events = <<>>
    /\ result = "none"
    /\ twin = config
    /\ workers = <<>>

Next ==
    \/ Logger_WithDefaultLevel
    \/ Logger_WithHTTPLevels
    \/ Logger_WithWhitelistPath
    \/ Logger_WithBlacklistPath
    \/ Logger_WithCustomLogger
    \/ Logger_WithCustomFields
    \/ Logger_WithoutDefaultFields
    \/ Logger_WithoutIP
    \/ Logger_WithoutStatus
    \/ Logger_WithoutMethod
    \/ Logger_WithoutPath
    \/ Logger_WithoutUserAgent
    \/ Logger_WithoutLatency
    \/ Logger_WithoutRequestID
    \/ Logger_New
    \/ Logger_Handler
    \/ Logger_Next
    \/ Logger_Log
    \/ Recovery_WithDefaultLevel
    \/ Recovery_WithCustomRecovery
    \/ Recovery_WithCustomFields
    \/ Recovery_WithoutDefaultFields
    \/ Recovery_WithoutError
    \/ Recovery_WithoutRequest
    \/ Recovery_WithoutStack
    \/ Recovery_New
    \/ Recovery_Handler
    \/ Recovery_Recover

Spec == Init /\ [][Next]_vars

-----------------------------------------------------------------------------
(* The request logger with its built-in level rules, over every status code *)

\* Largest status code a downstream handler answers with.
MaxStatus == 1500

\* c.Writer.Status() is an int: every code up to MaxStatus, and a negative one.
AllStatuses == (0 - 1)..MaxStatus

Logger_NextAnyStatus == Logger_NextWith(AllStatuses)

InitLogger == Init /\ mw = "logger"

NextDefaultLevels ==
    \/ Logger_WithCustomLogger
    \/ Logger_New
    \/ Logger_Handler
    \/ Logger_NextAnyStatus
    \/ Logger_Log

SpecDefaultLevels == InitLogger /\ [][NextDefaultLevels]_vars

-----------------------------------------------------------------------------
(* Two calls of logger.New with the same option list: config is built by   *)
(* the first, twin by the second.  Each call of WithHTTPLevels' option      *)
(* ranges over the same map, in an order of its own.                        *)

TwoCalls_WithDefaultLevel ==
    /\ mw = "logger"
    /\ phase = "opts"
    /\ nOpts < MaxOpts
    /\ nOpts' = nOpts + 1
    /\ \E level \in Levels :
        /\ config' = [config EXCEPT !.defaultLevel = level]
        /\ twin' = [twin EXCEPT !.defaultLevel = level]
    /\ UNCHANGED <<mw, phase, panicMsg, reqVars, workers>>

TwoCalls_WithHTTPLevels ==
    /\ mw = "logger"
    /\ phase = "opts"
    /\ nOpts < MaxOpts
    /\ nOpts' = nOpts + 1
    /\ \E m \in LevelMaps : \E o1, o2 \in RangeOrders(m) :
        /\ config' = [config EXCEPT !.httpLevels = HTTPLevelsFrom(<<>>, o1, 1)]
        /\ twin' = [twin EXCEPT !.httpLevels = HTTPLevelsFrom(<<>>, o2, 1)]
        /\ phase' = IF \A e \in m : e.expr.ok THEN "opts" ELSE "aborted"
        /\ panicMsg' = IF \A e \in m : e.expr.ok THEN NoPanic ELSE MsgRegexp
    /\ UNCHANGED <<mw, reqVars, workers>>

NextTwoCalls ==
    \/ TwoCalls_WithDefaultLevel
    \/ TwoCalls_WithHTTPLevels
    \/ Logger_New
    \/ Logger_Handler
    \/ Logger_Next
    \/ Logger_Log

SpecTwoCalls == InitLogger /\ [][NextTwoCalls]_vars

-----------------------------------------------------------------------------
(* Concurrent requests on one request logger.  gin runs the handler once    *)
(* per request, each invocation on its own goroutine with its own context   *)
(* and its own locals (start, requestID); config and the logger sink are    *)
(* shared.  workers[w] holds the context and locals of invocation w.        *)

\* Number of requests in flight at once.
NumWorkers == 2

\* Status codes the downstream handlers answer with.
ConcStatuses == {200, 500}

\* uuid.New().String(): a value no other call returns.
NewUUID(n) == "uuid-" \o ToString(n)

\* Mutant: requestID is declared outside the handler, so every invocation
\* reads the value written by the latest one.
SharedRequestID(ws, w) == ws[Len(ws)].requestID

\* The requestID local of invocation w.
OwnRequestID(ws, w) == ws[w].requestID

\* The handler up to c.Next(), on a new goroutine.
Conc_Handler ==
    /\ mw = "logger"
    /\ phase = "ready"
    /\ Len(workers) < NumWorkers
    /\ \E r \in Requests :
        workers' = Append(workers,
            [ pc |-> "next",
              request |-> r,
              requestID |-> NewUUID(Len(workers) + 1),
              header |-> LoggerHeader(config, NewUUID(Len(workers) + 1)),
              status |-> 200,
              err |-> Nil,
              result |-> "none" ])
    /\ UNCHANGED <<mw, phase, panicMsg, nOpts, config, reqVars, twin>>

\* c.Next() of one invocation.
Conc_Next ==
    /\ mw = "logger"
    /\ \E w \in 1..Len(workers) :
        /\ workers[w].pc = "next"
        /\ \/ \E code \in ConcStatuses :
                workers' = [workers EXCEPT ![w].status = code, ![w].pc = "after"]
           \/ \E v \in PanicValues :
                workers' = [workers EXCEPT ![w].err = v, ![w].result = "panic",
                                           ![w].pc = "done"]
    /\ UNCHANGED <<mw, phase, panicMsg, nOpts, config, reqVars, twin>>

\* The handler after c.Next() of one invocation; the record goes to the
\* logger sink the invocations share.
Conc_Log ==
    /\ mw = "logger"
    /\ \E w \in 1..Len(workers) :
        /\ workers[w].pc = "after"
        /\ workers' = [workers EXCEPT
                ![w].pc = "done",
                ![w].result = IF /\ ~WhitelistReturns(config, workers[w].request.path)
                                 /\ ~BlacklistReturns(config, workers[w].request.path)
                                 /\ config.customLogger = Nil
                              THEN "panic" ELSE "returned"]
        /\ IF \/ WhitelistReturns(config, workers[w].request.path)
              \/ BlacklistReturns(config, workers[w].request.path)
           THEN UNCHANGED records
           ELSE \E latency \in 0..MaxLatency :
                    records' = Append(records,
                        [ level |-> LoggerLevel(config, workers[w].status),
                          msg |-> "Incoming request",
                          attrs |-> LoggerAttributes(config, workers[w].request,
                                        workers[w].status, latency,
                                        OwnRequestID(workers, w)) ])
    /\ UNCHANGED <<mw, phase, panicMsg, nOpts, config, pc, request, requestID,
                   header, status, aborted, err, events, result, twin>>

Logger_WithBlacklistPathTest1 == Logger_WithBlacklistPathFrom({<<ExprTest1>>})

NextConcurrent ==
    \/ Logger_WithBlacklistPathTest1
    \/ Logger_New
    \/ Conc_Handler
    \/ Conc_Next
    \/ Conc_Log

SpecConcurrent == InitLogger /\ [][NextConcurrent]_vars

-----------------------------------------------------------------------------
(* Properties *)

\* A request of the logger whose downstream chain returned and whose handler
\* has ended.
LoggerCompleted == mw = "logger" /\ pc = "done" /\ err = Nil

\* A request of the recovery middleware whose downstream chain panicked and
\* whose handler has ended.
RecoveryPanicked == mw = "recovery" /\ pc = "done" /\ err # Nil

BothLists ==
    mw = "logger" /\ Len(config.whitelistPaths) # 0 /\ Len(config.blacklistPaths) # 0

NoFields ==
    IF mw = "logger"
    THEN ~( config.ipField \/ config.statusField \/ config.methodField
            \/ config.pathField \/ config.userAgentField \/ config.latencyField
            \/ config.requestIDField ) /\ config.customFields = Nil
    ELSE ~(config.errorField \/ config.requestField \/ config.stackField)
         /\ config.customFields = Nil

\* Indices of the rules whose regex matches the decimal status code.
MatchingRules ==
    { i \in 1..Len(config.httpLevels) :
        MatchString(config.httpLevels[i].regexp, Sprintf(status)) }

Keys(attrs) == [i \in 1..Len(attrs) |-> attrs[i].key]

\* C1: the level of the emitted record is the level of the first rule, in the
\* order of config.httpLevels, whose regex matches the decimal status code,
\* and the default level when no rule matches.
C1_FirstMatchingRule ==
    (mw = "logger" /\ records # <<>>) =>
        \A n \in 1..Len(records) :
            IF MatchingRules = {}
            THEN records[n].level = config.defaultLevel
            ELSE \E i \in MatchingRules :
                    /\ \A j \in MatchingRules : i <= j
                    /\ records[n].level = config.httpLevels[i].level

\* A record was emitted for a status that two rules of different levels match.
C1_Witness ==
    /\ mw = "logger"
    /\ records # <<>>
    /\ \E i, j \in MatchingRules :
        i < j /\ config.httpLevels[i].level # config.httpLevels[j].level

\* C2: with default options, a request whose downstream handler returns
\* normally emits exactly one record and the handler then returns normally.
C2_DefaultOptionsReturn ==
    (LoggerCompleted /\ config = LoggerNewConfig) =>
        (Len(records) = 1 /\ result = "returned")

\* C3: once the options are applied, a non-empty whitelist together with a
\* non-empty blacklist means New has panicked and returned no handler, and
\* New panics with the whitelist/blacklist message only in that case.
C3_WhitelistAndBlacklistAbort ==
    (mw = "logger" /\ phase # "opts") =>
        /\ BothLists => phase = "aborted"
        /\ panicMsg = MsgWhiteBlack => BothLists
        /\ (BothLists /\ panicMsg # MsgRegexp) => panicMsg = MsgWhiteBlack

\* New panicked because both lists are non-empty.
C3_Witness ==
    /\ mw = "logger"
    /\ phase = "aborted"
    /\ panicMsg = MsgWhiteBlack
    /\ BothLists

\* C4 as stated: after all options have been applied, construction aborts if
\* and only if every default field flag is disabled and no custom-fields
\* callback is set.
C4_AbortIffNoFields ==
    (phase # "opts" /\ panicMsg # MsgRegexp) => (phase = "aborted" <=> NoFields)

\* C4 as amended: when no option panicked on a regex, construction aborts if
\* and only if there are no fields to log or (request logger) both path lists
\* are non-empty, and it aborts with "no fields to log" if and only if there
\* are no fields to log and the path lists are not both non-empty.
C4_AbortIffNoFieldsOrBothLists ==
    (phase # "opts" /\ panicMsg # MsgRegexp) =>
        /\ phase = "aborted" <=> (NoFields \/ BothLists)
        /\ panicMsg = MsgNoFields <=> (NoFields /\ ~BothLists)
        /\ phase = "ready" <=> panicMsg = NoPanic

\* recovery.New panicked with no fields to log after three options.
C4_Witness ==
    /\ mw = "recovery"
    /\ phase = "aborted"
    /\ panicMsg = MsgNoFields
    /\ nOpts = 3
    /\ config.defaultLevel = LevelError

\* C5: with the default recovery action, a request whose downstream chain
\* panics produces exactly one record and ends with status 500, aborted.
C5_PanicLoggedOnceAnd500 ==
    (RecoveryPanicked /\ config.customRecovery = "AbortWithStatus(500)") =>
        /\ Len(records) = 1
        /\ status = 500
        /\ aborted

\* A panic was handled by the default recovery action.
C5_Witness ==
    /\ RecoveryPanicked
    /\ config.customRecovery = "AbortWithStatus(500)"
    /\ config.customFields # Nil
    /\ Len(records) = 1

\* C6: for every valid configuration the recovery handler returns normally
\* after a downstream panic.
C6_PanicAbsorbed ==
    RecoveryPanicked => result = "returned"

\* C7: with a whitelist, a completed request emits a record if and only if
\* its path matches at least one whitelist pattern.
C7_WhitelistAnyPattern ==
    (LoggerCompleted /\ Len(config.whitelistPaths) > 0) =>
        ( Len(records) = 1 <=>
            \E i \in 1..Len(config.whitelistPaths) :
                MatchString(config.whitelistPaths[i], request.path) )

\* C8: with a blacklist, a completed request emits a record if and only if
\* its path matches no blacklist pattern; with neither list, every completed
\* request emits a record.
C8_BlacklistNoPattern ==
    LoggerCompleted =>
        /\ Len(config.blacklistPaths) > 0 =>
            ( Len(records) = 1 <=>
                \A i \in 1..Len(config.blacklistPaths) :
                    ~MatchString(config.blacklistPaths[i], request.path) )
        /\ (Len(config.blacklistPaths) = 0 /\ Len(config.whitelistPaths) = 0) =>
            Len(records) = 1
        /\ Len(records) <= 1

\* A request was dropped by a blacklist of two patterns of which its path
\* matches only one.
C8_Witness ==
    /\ LoggerCompleted
    /\ records = <<>>
    /\ Len(config.blacklistPaths) = 2
    /\ \E i \in 1..2 : ~MatchString(config.blacklistPaths[i], request.path)

RequestIDAttrs(rec) ==
    {i \in 1..Len(rec.attrs) : rec.attrs[i].key = "request-id"}

\* C9: the X-Request-ID header is set if and only if the request id field is
\* enabled; it is set before the downstream chain runs, whatever the path
\* filters, and the record's request-id attribute carries the same value.
C9_RequestIDHeader ==
    (mw = "logger" /\ pc # "idle") =>
        /\ header # Nil <=> config.requestIDField
        /\ header # Nil => (header = requestID /\ events[1] = "Header")
        /\ header = Nil => \A i \in 1..Len(events) : events[i] # "Header"
        /\ \A n \in 1..Len(records) :
            /\ RequestIDAttrs(records[n]) # {} <=> header # Nil
            /\ \A i \in RequestIDAttrs(records[n]) :
                records[n].attrs[i].val = header

\* A record carrying the request id was emitted, and a different id could
\* have been drawn.
C9_Witness ==
    /\ mw = "logger"
    /\ pc = "done"
    /\ header = "9566c74d"
    /\ Len(records) = 1
    /\ RequestIDAttrs(records[1]) # {}

LoggerKeys == <<"ip", "status", "method", "path", "user-agent", "latency", "request-id">>

FieldEnabled(k) ==
    CASE k = "ip" -> config.ipField
      [] k = "status" -> config.statusField
      [] k = "method" -> config.methodField
      [] k = "path" -> config.pathField
      [] k = "user-agent" -> config.userAgentField
      [] k = "latency" -> config.latencyField
      [] k = "request-id" -> config.requestIDField

\* C10: the record's keys are the enabled keys among ip, status, method, path,
\* user-agent, latency, request-id, once each and in that order, followed by
\* the attributes of the custom-fields callback.
C10_FieldSelection ==
    (mw = "logger" /\ records # <<>>) =>
        \A n \in 1..Len(records) :
            /\ Keys(records[n].attrs) =
                  SelectSeq(LoggerKeys, FieldEnabled)
                  \o (IF config.customFields # Nil THEN Keys(CustomAttrs(request))
                      ELSE <<>>)
            /\ \A i \in 1..Len(records[n].attrs) :
                LET a == records[n].attrs[i] IN
                    /\ a.key = "status" => a.val = status
                    /\ a.key = "method" => a.val = request.method
                    /\ a.key = "path" => a.val = request.path
                    /\ a.key = "user-agent" => a.val = request.userAgent

\* A record with some fields disabled, some enabled and custom fields.
C10_Witness ==
    /\ mw = "logger"
    /\ Len(records) = 1
    /\ ~config.pathField
    /\ ~config.latencyField
    /\ config.userAgentField
    /\ config.customFields # Nil

\* C11: with no level option, a status 100-399 is logged at INFO, 400-499 at
\* WARN, 500-599 at ERROR, and any other status at the default level INFO.
C11_DefaultLevelMapping ==
    (mw = "logger" /\ records # <<>>) =>
        \A n \in 1..Len(records) :
            records[n].level =
                IF status >= 400 /\ status <= 499 THEN LevelWarn
                ELSE IF status >= 500 /\ status <= 599 THEN LevelError
                ELSE LevelInfo

\* A four-digit status ending in a client error code was logged.
C11_Witness ==
    /\ mw = "logger"
    /\ Len(records) = 1
    /\ status = 1404
    /\ records[1].level = LevelInfo

\* C12: for a fixed option list and a fixed status code the emitted level is
\* the same on every construction: the record of the first construction has
\* the level the second construction resolves for the same status.
C12_LevelDeterministic ==
    (mw = "logger" /\ records # <<>>) =>
        \A n \in 1..Len(records) : records[n].level = LoggerLevel(twin, status)

Occurrences(e) == {i \in 1..Len(events) : events[i] = e}

\* C13: when the downstream chain panics, exactly one record is emitted and
\* the recovery action is then invoked exactly once with the panic value;
\* when it does not panic, no record is emitted and the action is not invoked.
C13_RecordThenRecoveryAction ==
    (mw = "recovery" /\ pc = "done") =>
        IF err # Nil
        THEN /\ Len(records) = 1
             /\ Cardinality(Occurrences("LogAttrs")) = 1
             /\ Cardinality(Occurrences("customRecovery(" \o err \o ")")) = 1
             /\ \A i \in Occurrences("LogAttrs") :
                    \A j \in Occurrences("customRecovery(" \o err \o ")") : i < j
             /\ events[Len(events)] = "customRecovery(" \o err \o ")"
        ELSE /\ records = <<>>
             /\ events = <<"Next">>

\* C14: once New has returned, no step of a handled request changes the
\* configuration of either middleware, and the handler stays usable.
C14_ConfigImmutable ==
    [][phase = "ready" => (config' = config /\ phase' = "ready")]_vars

\* Requests were handled under a configuration that is not the default one:
\* one was filtered out by the blacklist.
C14_Witness ==
    /\ mw = "logger"
    /\ phase = "ready"
    /\ pc = "done"
    /\ result = "returned"
    /\ records = <<>>
    /\ Len(config.blacklistPaths) > 0
    /\ config.defaultLevel # LevelInfo

\* Invocations that have ended after their downstream chain returned and
\* whose path no filter drops.
LoggedWorkers ==
    { w \in 1..Len(workers) :
        /\ workers[w].pc = "done"
        /\ workers[w].err = Nil
        /\ \A i \in 1..Len(config.blacklistPaths) :
            ~MatchString(config.blacklistPaths[i], workers[w].request.path) }

AttrVal(rec, key) ==
    rec.attrs[CHOOSE i \in 1..Len(rec.attrs) : rec.attrs[i].key = key].val

\* C15: under any interleaving each request emits the record it emits when
\* handled alone, no record carries another request's status, path or
\* request id, and there is one record per request that is not filtered out.
C15_RequestIsolation ==
    mw = "logger" =>
        /\ Len(records) = Cardinality(LoggedWorkers)
        /\ \A w \in LoggedWorkers :
            \E n \in 1..Len(records) :
                /\ AttrVal(records[n], "request-id") = workers[w].requestID
                /\ AttrVal(records[n], "status") = workers[w].status
                /\ AttrVal(records[n], "path") = workers[w].request.path
                /\ AttrVal(records[n], "method") = workers[w].request.method
                /\ \E latency \in 0..MaxLatency :
                    records[n] =
                        [ level |-> LoggerLevel(config, workers[w].status),
                          msg |-> "Incoming request",
                          attrs |-> LoggerAttributes(config, workers[w].request,
                                        workers[w].status, latency,
                                        workers[w].requestID) ]

\* The second request was logged while the first, started earlier with
\* another path and status, is still between c.Next() and its record.
C15_Witness ==
    /\ mw = "logger"
    /\ Len(workers) = 2
    /\ workers[1].pc = "after"
    /\ workers[2].pc = "done"
    /\ Len(records) = 1
    /\ workers[1].status # workers[2].status
    /\ workers[1].request.path # workers[2].request.path

\* The path of the request matches no whitelist pattern, or some blacklist
\* pattern.
FilteredOut ==
    \/ /\ Len(config.whitelistPaths) > 0
       /\ \A i \in 1..Len(config.whitelistPaths) :
            ~MatchString(config.whitelistPaths[i], request.path)
    \/ \E i \in 1..Len(config.blacklistPaths) :
            MatchString(config.blacklistPaths[i], request.path)

\* C16: the downstream chain is invoked exactly once per request; a record is
\* emitted only after it has returned and carries the final status; the
\* custom logger, when configured, is invoked exactly once per logged request,
\* after the record; a filtered request has neither record nor custom logger.
C16_LoggerEventOrder ==
    (mw = "logger" /\ pc # "idle") =>
        /\ Cardinality(Occurrences("Next")) = IF pc = "next" THEN 0 ELSE 1
        /\ Cardinality(Occurrences("LogAttrs")) = Len(records)
        /\ Len(records) <= 1
        /\ records # <<>> => (pc = "done" /\ err = Nil)
        /\ \A i \in Occurrences("LogAttrs") : \A j \in Occurrences("Next") : j < i
        /\ \A n \in 1..Len(records) : \A i \in 1..Len(records[n].attrs) :
                records[n].attrs[i].key = "status" => records[n].attrs[i].val = status
        /\ Cardinality(Occurrences("customLogger")) =
                IF config.customLogger # Nil THEN Len(records) ELSE 0
        /\ \A i \in Occurrences("customLogger") : \A j \in Occurrences("LogAttrs") : j < i
        /\ FilteredOut =>
                (records = <<>> /\ Occurrences("customLogger") = {})

\* A logged request with a custom logger, and its status field enabled.
C16_Witness ==
    /\ mw = "logger"
    /\ pc = "done"
    /\ Len(records) = 1
    /\ config.customLogger # Nil
    /\ config.statusField
    /\ Len(config.whitelistPaths) > 0
    /\ events[Len(events)] = "customLogger"

\* The rules of config.httpLevels as map entries.
RuleEntries ==
    { [expr |-> config.httpLevels[i].regexp, level |-> config.httpLevels[i].level] :
        i \in 1..Len(config.httpLevels) }

\* C17: once WithHTTPLevels was applied the rules are those of its map and
\* no built-in rule is left; a status no rule matches is logged at the
\* default level, a status some rule matches at a matching rule's level.
C17_HTTPLevelsReplace ==
    (mw = "logger" /\ phase = "ready"
        /\ config.httpLevels # LoggerNewConfig.httpLevels) =>
        /\ \E m \in LevelMaps :
            RuleEntries = m /\ Len(config.httpLevels) = Cardinality(m)
        /\ \A n \in 1..Len(records) :
            IF MatchingRules = {}
            THEN records[n].level = config.defaultLevel
            ELSE \E i \in MatchingRules :
                    records[n].level = config.httpLevels[i].level

\* With the map {2xx: WARN} and the default level untouched, a 500 was
\* logged at INFO.
C17_Witness ==
    /\ mw = "logger"
    /\ config.httpLevels = <<newhttpLevel(HTTPSuccessfulRegex, LevelWarn)>>
    /\ config.defaultLevel = LevelInfo
    /\ status = 500
    /\ Len(records) = 1
    /\ records[1].level = LevelInfo

RecoveryKeys == <<"error", "request", "stack">>

RecoveryFieldEnabled(k) ==
    CASE k = "error" -> config.errorField
      [] k = "request" -> config.requestField
      [] k = "stack" -> config.stackField

\* C18: the record of a panic is at the configured level (ERROR when no
\* option was given), whatever the panic value and the response status; its
\* keys are the enabled keys among error, request, stack, once each and in
\* that order, followed by the custom fields; error is the recovered value.
C18_RecoveryRecord ==
    (mw = "recovery" /\ records # <<>>) =>
        \A n \in 1..Len(records) :
            /\ records[n].level = config.defaultLevel
            /\ nOpts = 0 => records[n].level = LevelError
            /\ records[n].msg = "Panic recovered"
            /\ Keys(records[n].attrs) =
                  SelectSeq(RecoveryKeys, RecoveryFieldEnabled)
                  \o (IF config.customFields # Nil THEN Keys(CustomAttrs(request))
                      ELSE <<>>)
            /\ \A i \in 1..Len(records[n].attrs) :
                records[n].attrs[i].key = "error" => records[n].attrs[i].val = err

\* A panic logged below ERROR with the error field disabled, the other two
\* enabled and custom fields.
C18_Witness ==
    /\ mw = "recovery"
    /\ Len(records) = 1
    /\ config.defaultLevel = LevelDebug
    /\ ~config.errorField
    /\ config.requestField
    /\ config.stackField
    /\ config.customFields # Nil
    /\ err = "oops"

====
